---- MODULE Spec2Model ----
(***************************************************************************)
(* Model of code/behavioral_analysis.py: the windowing / binning /         *)
(* aggregation functions applied to one subject record; of                 *)
(* code/data_loader.py: load_matlab_data; and of the orchestrators that    *)
(* load the roster, analyse each loaded unit and hand results to plotting. *)
(*                                                                         *)
(* Times are integers (seconds).  A float result is kept as an exact       *)
(* fraction [num, den] or as the marker NaN, so that a division, a         *)
(* NaN replacement and a clamp each change the value they are applied to.  *)
(* Rounding of float64 arithmetic is not modelled.                         *)
(***************************************************************************)
EXTENDS Integers, Sequences, FiniteSets, TLC

(* ---- bounds of the explored inputs ---- *)
MaxTime == 2
MaxStart == 1
MaxBin == 2
MaxCrossings == 2
MaxPeriphery == 2
MaxIntervals == 2
MaxWideEnd == 5
MaxSeriesBins == 2
MaxValue == 1
MaxLoaded == 2

VARIABLES record, bin_size, start_sec, end_sec, all_thigmotaxis_data, ret,
          data_dir, raw_data, loaded_data, orchestrator, pc, analysed, bin_centers,
          all_accumulated_crossings, all_total_crossings,
          all_freezing_data, all_grooming_data, plotted

\* the locals of an orchestrator run, and the directory it reads
Orchestration ==
    <<data_dir, raw_data, loaded_data, orchestrator, pc, analysed, bin_centers,
      all_accumulated_crossings, all_total_crossings,
      all_freezing_data, all_grooming_data, plotted>>

vars == <<record, bin_size, start_sec, end_sec, all_thigmotaxis_data, ret, Orchestration>>

(* ---- numeric helpers ---- *)

\* a Python float that is the exact quotient n / d, d > 0
Frac(n, d) == [num |-> n, den |-> d]

\* np.nan: the one value with denominator 0
NaN == [num |-> 0, den |-> 0]

IsNaN(x) == x.den = 0

Max2(a, b) == IF a >= b THEN a ELSE b

Min2(a, b) == IF a <= b THEN a ELSE b

RECURSIVE SumSeq(_)
SumSeq(s) == IF s = << >> THEN 0 ELSE Head(s) + SumSeq(Tail(s))

\* Python int(a / b) for b > 0: true division, then truncation toward zero
IntOfQuotient(a, b) == IF a >= 0 THEN a \div b ELSE -((-a) \div b)

\* np.arange(first, stop, step), step > 0: first, first+step, ... below stop
ArangeMutantInclusiveStop(first, stop, step) ==
    LET n == IF stop >= first THEN (stop - first) \div step + 1 ELSE 0
    IN  [i \in 1..n |-> first + (i - 1) * step]

Arange(first, stop, step) ==
    LET n == IF stop > first THEN (stop - first + step - 1) \div step ELSE 0
    IN  [i \in 1..n |-> first + (i - 1) * step]

\* a[mask] for mask = (a >= lo) & (a < hi)
WindowMaskMutantClosedEnd(a, lo, hi) == SelectSeq(a, LAMBDA t : t >= lo /\ t <= hi)

WindowMask(a, lo, hi) == SelectSeq(a, LAMBDA t : t >= lo /\ t < hi)

\* a - c, elementwise
Shift(a, c) == [i \in 1..Len(a) |-> a[i] - c]

\* bins[1:]
Rest(s) == IF s = << >> THEN << >> ELSE Tail(s)

\* bins[1:] / 60
BinEndsMinutes(bins) == [i \in 1..Len(Rest(bins)) |-> Frac(Rest(bins)[i], 60)]

\* np.histogram(a, bins=bins)[0] for an array of edges: bin i is
\* [bins[i], bins[i+1]), the last bin also holds its right edge; values
\* outside [bins[1], bins[last]] are dropped.
InBin(x, bins, i) ==
    /\ bins[i] <= x
    /\ IF i = Len(bins) - 1 THEN x <= bins[i + 1] ELSE x < bins[i + 1]

HistogramMutantRightClosed(a, bins) ==
    [i \in 1..(Len(bins) - 1) |->
        Cardinality({j \in 1..Len(a) :
            /\ IF i = 1 THEN bins[i] <= a[j] ELSE bins[i] < a[j]
            /\ a[j] <= bins[i + 1]})]

Histogram(a, bins) ==
    [i \in 1..(Len(bins) - 1) |->
        Cardinality({j \in 1..Len(a) : InBin(a[j], bins, i)})]

\* np.cumsum(a)
CumsumMutantNoCarry(a) == a

CumsumMutantShifted(a) == [i \in 1..Len(a) |-> SumSeq(SubSeq(a, 1, i - 1))]

Cumsum(a) == [i \in 1..Len(a) |-> SumSeq(SubSeq(a, 1, i))]

\* np.divide(p, t, out=full_like(t, nan, dtype=float), where=t != 0)
DivideWhereNonzero(p, t) ==
    [i \in 1..Len(t) |-> IF t[i] /= 0 THEN Frac(p[i], t[i]) ELSE NaN]

\* np.nan_to_num(x, nan=0.0)
NanToNumMutantKeepNaN(x) == x

NanToNum(x) == [i \in 1..Len(x) |-> IF IsNaN(x[i]) THEN Frac(0, 1) ELSE x[i]]

\* np.minimum(x, 1.0); NaN propagates
MinimumOneMutantNoClamp(x) == x

MinimumOne(x) ==
    [i \in 1..Len(x) |->
        IF IsNaN(x[i]) THEN NaN
        ELSE IF x[i].num > x[i].den THEN Frac(1, 1) ELSE x[i]]

(* ---- what a call hands back ---- *)

Returned(fn, values, bin_ends_minutes) ==
    [fn |-> fn, raised |-> "none", values |-> values,
     bin_ends_minutes |-> bin_ends_minutes, behavior_key |-> "none"]

Raised(fn, error) ==
    [fn |-> fn, raised |-> error, values |-> << >>,
     bin_ends_minutes |-> << >>, behavior_key |-> "none"]

NotCalled == Returned("none", << >>, << >>)

(* ---- analysis functions ---- *)

calculate_thigmotaxis_in_window(animal_data, bin_size_seconds, start_time_seconds, end_time_seconds) ==
    LET all_crossings == animal_data.crossing_times
        periphery_crossings == animal_data.periphery_times
        all_crossings_in_window ==
            WindowMask(all_crossings, start_time_seconds, end_time_seconds)
        periphery_crossings_in_window ==
            WindowMask(periphery_crossings, start_time_seconds, end_time_seconds)
        duration == end_time_seconds - start_time_seconds
        bins == Arange(0, duration + bin_size_seconds, bin_size_seconds)
        bin_ends_minutes == BinEndsMinutes(bins)
        total_counts ==
            Histogram(Shift(all_crossings_in_window, start_time_seconds), bins)
        periphery_counts ==
            Histogram(Shift(periphery_crossings_in_window, start_time_seconds), bins)
        thigmotaxis_indices ==
            MinimumOne(NanToNum(DivideWhereNonzero(periphery_counts, total_counts)))
    IN  Returned("thigmotaxis", thigmotaxis_indices, bin_ends_minutes)

calculate_total_crossings_in_window(animal_data, bin_size_seconds, start_time_seconds, end_time_seconds) ==
    LET all_crossings == animal_data.crossing_times
        all_crossings_in_window ==
            WindowMask(all_crossings, start_time_seconds, end_time_seconds)
        duration == end_time_seconds - start_time_seconds
        bins == Arange(0, duration + bin_size_seconds, bin_size_seconds)
        bin_ends_minutes == BinEndsMinutes(bins)
        total_counts ==
            Histogram(Shift(all_crossings_in_window, start_time_seconds), bins)
    IN  Returned("total_crossings", total_counts, bin_ends_minutes)

calculate_accumulated_crossings_in_window(animal_data, bin_size_seconds, start_time_seconds, end_time_seconds) ==
    LET r == calculate_total_crossings_in_window(
                 animal_data, bin_size_seconds, start_time_seconds, end_time_seconds)
        accumulated_counts == Cumsum(r.values)
    IN  Returned("accumulated_crossings", accumulated_counts, r.bin_ends_minutes)

\* the periphery stream binned without the window mask
calculate_periphery_crossings_in_windowMutantNoMask(animal_data, bin_size_seconds, start_time_seconds, end_time_seconds) ==
    LET bins == Arange(0, end_time_seconds - start_time_seconds + bin_size_seconds, bin_size_seconds)
    IN  Returned("periphery_crossings",
                 Histogram(Shift(animal_data.periphery_times, start_time_seconds), bins),
                 BinEndsMinutes(bins))

calculate_periphery_crossings_in_window(animal_data, bin_size_seconds, start_time_seconds, end_time_seconds) ==
    LET periphery_crossings == animal_data.periphery_times
        periphery_crossings_in_window ==
            WindowMask(periphery_crossings, start_time_seconds, end_time_seconds)
        duration == end_time_seconds - start_time_seconds
        bins == Arange(0, duration + bin_size_seconds, bin_size_seconds)
        bin_ends_minutes == BinEndsMinutes(bins)
        periphery_counts ==
            Histogram(Shift(periphery_crossings_in_window, start_time_seconds), bins)
    IN  Returned("periphery_crossings", periphery_counts, bin_ends_minutes)

calculate_accumulated_periphery_crossings_in_window(animal_data, bin_size_seconds, start_time_seconds, end_time_seconds) ==
    LET r == calculate_periphery_crossings_in_window(
                 animal_data, bin_size_seconds, start_time_seconds, end_time_seconds)
        accumulated_periphery_counts == Cumsum(r.values)
    IN  Returned("accumulated_periphery_crossings", accumulated_periphery_counts,
                 r.bin_ends_minutes)

(* ---- whole-window ratio ---- *)

\* max(total_crossings_count - periphery_crossings_count, 1)
CenterCrossingsCountMutantOfTotal(total_crossings_count, periphery_crossings_count) == Max2(total_crossings_count, 1)

CenterCrossingsCountMutantNoFloor(total_crossings_count, periphery_crossings_count) == total_crossings_count - periphery_crossings_count

CenterCrossingsCount(total_crossings_count, periphery_crossings_count) == Max2(total_crossings_count - periphery_crossings_count, 1)

\* a scalar result: values holds the float itself, there are no bin labels
ReturnedScalar(fn, x) == [Returned(fn, << >>, << >>) EXCEPT !.values = x]

\* x / 0 in Python
DividedByZero(fn) == Raised(fn, "ZeroDivisionError")

calculate_periphery_center_ratio(animal_data, start_time_seconds, end_time_seconds) ==
    LET all_crossings == animal_data.crossing_times
        periphery_crossings == animal_data.periphery_times
        all_crossings_in_window ==
            WindowMask(all_crossings, start_time_seconds, end_time_seconds)
        periphery_crossings_in_window ==
            WindowMask(periphery_crossings, start_time_seconds, end_time_seconds)
        total_crossings_count == Len(all_crossings_in_window)
        periphery_crossings_count == Len(periphery_crossings_in_window)
        center_crossings_count ==
            CenterCrossingsCount(total_crossings_count, periphery_crossings_count)
    IN  IF center_crossings_count = 0
        THEN DividedByZero("periphery_center_ratio")
        ELSE ReturnedScalar("periphery_center_ratio",
                            Frac(periphery_crossings_count, center_crossings_count))

(* ---- cross-subject mean ---- *)

\* float addition and division by a count, on exact fractions
AddFrac(a, b) == Frac(a.num * b.den + b.num * a.den, a.den * b.den)

RECURSIVE SumFracs(_)
SumFracs(s) == IF s = << >> THEN Frac(0, 1) ELSE AddFrac(Head(s), SumFracs(Tail(s)))

\* a subject id is a string; its characters are kept apart so that
\* animal_id.startswith(c) is a test on the first one
StartsWith(animal_id, c) == Len(animal_id) >= 1 /\ animal_id[1] = c

\* [data for animal_id, data in d.items() if animal_id.startswith(c)]
RECURSIVE ListOf(_, _)
ListOf(d, ids) ==
    IF ids = {} THEN << >>
    ELSE LET id == CHOOSE x \in ids : TRUE
         IN  <<d[id]>> \o ListOf(d, ids \ {id})

DataStartingWithMutantNotOther(d, c) == ListOf(d, {id \in DOMAIN d : ~StartsWith(id, IF c = "M" THEN "F" ELSE "M")})

DataStartingWith(d, c) == ListOf(d, {id \in DOMAIN d : StartsWith(id, c)})

\* np.mean(data, axis=0) for a list of equal-length series; the mean of an
\* empty list is the scalar nan (numpy warns, it does not raise)
MeanAxis0(data) ==
    IF data = << >> THEN NaN
    ELSE [i \in 1..Len(data[1]) |->
            LET total == SumFracs([k \in 1..Len(data) |-> data[k][i]])
            IN  Frac(total.num, total.den * Len(data))]

calculate_mean_thigmotaxis_by_sex(thigmotaxis_data) ==
    LET male_data == DataStartingWith(thigmotaxis_data, "M")
        female_data == DataStartingWith(thigmotaxis_data, "F")
        male_mean == MeanAxis0(male_data)
        female_mean == MeanAxis0(female_data)
    IN  ReturnedScalar("mean_thigmotaxis_by_sex",
                       [male_mean |-> male_mean, female_mean |-> female_mean])

(* ---- interval behaviours ---- *)

\* np.zeros(n)
Zeros(n) == [i \in 1..n |-> 0]

\* behavior_times is a 2 x N array: row 1 the starts, row 2 the ends
Size(behavior_times) == Len(behavior_times[1]) + Len(behavior_times[2])

\* np.maximum(0, np.minimum(ends, bin_end) - np.maximum(starts, bin_start))
OverlapDurationMutantNoFloor(behavior_times, bin_start, bin_end) ==
    [j \in 1..Len(behavior_times[1]) |->
        Min2(behavior_times[2][j], bin_end) - Max2(behavior_times[1][j], bin_start)]

OverlapDurationMutantIgnoresBinEnd(behavior_times, bin_start, bin_end) ==
    [j \in 1..Len(behavior_times[1]) |->
        Max2(0, behavior_times[2][j] - Max2(behavior_times[1][j], bin_start))]

OverlapDurationMutantIgnoresBinStart(behavior_times, bin_start, bin_end) ==
    [j \in 1..Len(behavior_times[1]) |->
        Max2(0, Min2(behavior_times[2][j], bin_end) - behavior_times[1][j])]

OverlapDuration(behavior_times, bin_start, bin_end) ==
    LET overlap_start ==
            [j \in 1..Len(behavior_times[1]) |-> Max2(behavior_times[1][j], bin_start)]
        overlap_end ==
            [j \in 1..Len(behavior_times[2]) |-> Min2(behavior_times[2][j], bin_end)]
    IN  [j \in 1..Len(behavior_times[1]) |-> Max2(0, overlap_end[j] - overlap_start[j])]

\* the edges of the key-present branch, built from start_time_seconds
BehaviorBinsMutantNoExtraEdge(bin_size_seconds, start_time_seconds, end_time_seconds) ==
    Arange(start_time_seconds, end_time_seconds, bin_size_seconds)

BehaviorBins(bin_size_seconds, start_time_seconds, end_time_seconds) ==
    Arange(start_time_seconds, end_time_seconds + bin_size_seconds, bin_size_seconds)

KeyMissing(animal_data, behavior_key) ==
    \/ behavior_key \notin DOMAIN animal_data
    \/ Size(animal_data[behavior_key]) = 0

calculate_behavior_duration_in_window(animal_data, behavior_key, bin_size_seconds, start_time_seconds, end_time_seconds) ==
    IF KeyMissing(animal_data, behavior_key)
    THEN LET duration == end_time_seconds - start_time_seconds
             num_bins == IntOfQuotient(duration, bin_size_seconds)
             bins == Arange(0, duration + bin_size_seconds, bin_size_seconds)
             bin_ends_minutes == BinEndsMinutes(bins)
         IN  IF num_bins < 0
             THEN [Raised("behavior_duration", "ValueError")
                      EXCEPT !.behavior_key = behavior_key]
             ELSE [Returned("behavior_duration", Zeros(num_bins), bin_ends_minutes)
                      EXCEPT !.behavior_key = behavior_key]
    ELSE LET behavior_times == animal_data[behavior_key]
             bins == BehaviorBins(bin_size_seconds, start_time_seconds, end_time_seconds)
             binned_durations ==
                 [i \in 1..(Len(bins) - 1) |->
                     SumSeq(OverlapDuration(behavior_times, bins[i], bins[i + 1]))]
             bin_ends_minutes ==
                 [i \in 1..Len(Rest(bins)) |->
                     Frac(Rest(bins)[i] - start_time_seconds, 60)]
         IN  IF Len(bins) - 1 < 0
             THEN [Raised("behavior_duration", "ValueError")
                      EXCEPT !.behavior_key = behavior_key]
             ELSE [Returned("behavior_duration", binned_durations, bin_ends_minutes)
                      EXCEPT !.behavior_key = behavior_key]

(* ---- inputs ---- *)

SeqsUpTo(S, n) == UNION {[1..k -> S] : k \in 0..n}

Times == 0..MaxTime

BinSizes == 1..MaxBin

\* a subject record as the loader builds it, without interval behaviours
EventRecords ==
    {[crossing_times |-> c, periphery_times |-> p] :
        c \in SeqsUpTo(Times, MaxCrossings), p \in SeqsUpTo(Times, MaxPeriphery)}

BehaviorKeys == {"Freezing_start_stop", "grooming_start_stop"}

\* the 2 x N arrays of N <= MaxIntervals (start, stop) columns
BehaviorArrays ==
    UNION {{<<[j \in 1..k |-> cols[j][1]], [j \in 1..k |-> cols[j][2]]>> :
                cols \in [1..k -> Times \X Times]} : k \in 0..MaxIntervals}

\* a subject record with no crossings, with or without a freezing array
BehaviorRecords ==
    {[crossing_times |-> << >>, periphery_times |-> << >>]}
    \cup {[crossing_times |-> << >>, periphery_times |-> << >>,
           Freezing_start_stop |-> b] : b \in BehaviorArrays}

\* all_thigmotaxis_data = {} : no per-subject result collected
NoSubjects == [id \in {} |-> << >>]

\* the analysis functions called directly: no orchestrator is running
NoOrchestrator ==
    /\ data_dir = NoSubjects
    /\ raw_data = NoSubjects
    /\ loaded_data = NoSubjects
    /\ orchestrator = "none"
    /\ pc = "idle"
    /\ analysed = << >>
    /\ bin_centers = << >>
    /\ all_accumulated_crossings = NoSubjects
    /\ all_total_crossings = NoSubjects
    /\ all_freezing_data = NoSubjects
    /\ all_grooming_data = NoSubjects
    /\ plotted = << >>

ParamsInit ==
    /\ bin_size \in BinSizes
    /\ start_sec \in 0..MaxStart
    /\ end_sec \in Times
    /\ all_thigmotaxis_data = NoSubjects
    /\ ret = NotCalled
    /\ NoOrchestrator

Init ==
    /\ record \in EventRecords
    /\ ParamsInit

(* ---- one action per analysis entry point ---- *)

Inputs == <<record, bin_size, start_sec, end_sec, all_thigmotaxis_data, Orchestration>>

\* the masked, shifted streams written back into the record
CallThigmotaxisMutantWritesRecord ==
    /\ ret' = calculate_thigmotaxis_in_window(record, bin_size, start_sec, end_sec)
    /\ record' = [record EXCEPT
          !.crossing_times =
              Shift(WindowMask(record.crossing_times, start_sec, end_sec), start_sec),
          !.periphery_times =
              Shift(WindowMask(record.periphery_times, start_sec, end_sec), start_sec)]
    /\ UNCHANGED <<bin_size, start_sec, end_sec, all_thigmotaxis_data, Orchestration>>

CallThigmotaxis ==
    /\ ret' = calculate_thigmotaxis_in_window(record, bin_size, start_sec, end_sec)
    /\ UNCHANGED Inputs

CallTotalCrossings ==
    /\ ret' = calculate_total_crossings_in_window(record, bin_size, start_sec, end_sec)
    /\ UNCHANGED Inputs

CallAccumulatedCrossings ==
    /\ ret' = calculate_accumulated_crossings_in_window(record, bin_size, start_sec, end_sec)
    /\ UNCHANGED Inputs

CallPeripheryCrossings ==
    /\ ret' = calculate_periphery_crossings_in_window(record, bin_size, start_sec, end_sec)
    /\ UNCHANGED Inputs

CallAccumulatedPeripheryCrossings ==
    /\ ret' = calculate_accumulated_periphery_crossings_in_window(
                  record, bin_size, start_sec, end_sec)
    /\ UNCHANGED Inputs

Next ==
    \/ CallThigmotaxis
    \/ CallTotalCrossings
    \/ CallAccumulatedCrossings
    \/ CallPeripheryCrossings
    \/ CallAccumulatedPeripheryCrossings

Spec == Init /\ [][Next]_vars

(* ---- the interval-behaviour entry point, on records with intervals ---- *)

InitDuration ==
    /\ record \in BehaviorRecords
    /\ ParamsInit

CallBehaviorDuration ==
    /\ \E behavior_key \in BehaviorKeys :
           ret' = calculate_behavior_duration_in_window(
                      record, behavior_key, bin_size, start_sec, end_sec)
    /\ UNCHANGED Inputs

NextDuration == CallBehaviorDuration

SpecDuration == InitDuration /\ [][NextDuration]_vars

(* ---- the whole-window ratio, on records with event streams ---- *)

\* default arguments of the analysis functions
DefaultBinSize == 150

DefaultStart == 3

DefaultEnd == 603

\* the ratio takes no bin size
InitRatio ==
    /\ record \in EventRecords
    /\ bin_size = DefaultBinSize
    /\ start_sec \in 0..MaxStart
    /\ end_sec \in Times
    /\ all_thigmotaxis_data = NoSubjects
    /\ ret = NotCalled
    /\ NoOrchestrator

CallPeripheryCenterRatio ==
    /\ ret' = calculate_periphery_center_ratio(record, start_sec, end_sec)
    /\ UNCHANGED Inputs

NextRatio == CallPeripheryCenterRatio

SpecRatio == InitRatio /\ [][NextRatio]_vars

(* ---- the ratio next to the accumulated series of the same record ---- *)

NextCounts ==
    \/ CallAccumulatedCrossings
    \/ CallAccumulatedPeripheryCrossings
    \/ CallPeripheryCenterRatio

SpecCounts == Init /\ [][NextCounts]_vars

(* ---- every entry point, over longer windows and the documented scenarios ---- *)

\* records with at most one event per stream, or with at most one interval
WideRecords ==
    {[crossing_times |-> c, periphery_times |-> q] :
        c \in SeqsUpTo(Times, 1), q \in SeqsUpTo(Times, 1)}
    \cup {[crossing_times |-> << >>, periphery_times |-> << >>,
           Freezing_start_stop |-> <<a, b>>] :
              a \in SeqsUpTo(Times, 1), b \in SeqsUpTo(Times, 1)}

\* the record of the documented scenarios
ScenarioRecord ==
    [crossing_times |-> <<10, 160, 170, 400, 590>>,
     periphery_times |-> <<10, 170>>,
     Freezing_start_stop |-> << <<100>>, <<250>> >>]

InitWide ==
    /\ \/ /\ record \in {r \in WideRecords :
                          "Freezing_start_stop" \in DOMAIN r
                              => Len(r.Freezing_start_stop[1]) = Len(r.Freezing_start_stop[2])}
          /\ bin_size \in BinSizes
          /\ start_sec \in 0..MaxStart
          /\ end_sec \in 0..MaxWideEnd
       \/ /\ record = ScenarioRecord
          /\ bin_size = DefaultBinSize
          /\ \/ start_sec = DefaultStart /\ end_sec = DefaultEnd
             \/ start_sec = 0 /\ end_sec = 600
    /\ all_thigmotaxis_data = NoSubjects
    /\ ret = NotCalled
    /\ NoOrchestrator

NextWide ==
    \/ CallThigmotaxis
    \/ CallTotalCrossings
    \/ CallAccumulatedCrossings
    \/ CallPeripheryCrossings
    \/ CallAccumulatedPeripheryCrossings
    \/ CallPeripheryCenterRatio
    \/ CallBehaviorDuration

SpecWide == InitWide /\ [][NextWide]_vars

(* ---- the cross-subject mean, on collected per-subject series ---- *)

SubjectIds == {<<"M", "B">>, <<"M", "R">>, <<"F", "B">>, <<"X", "B">>}

\* series of MaxSeriesBins values each
SeriesSet == [1..MaxSeriesBins -> {Frac(v, 1) : v \in 0..MaxValue}]

\* the documented example {MB: [1, 2], MR: [3, 4], FB: [5, 6]}
ExampleSeriesBySubject ==
    (<<"M", "B">> :> <<Frac(1, 1), Frac(2, 1)>>)
    @@ (<<"M", "R">> :> <<Frac(3, 1), Frac(4, 1)>>)
    @@ (<<"F", "B">> :> <<Frac(5, 1), Frac(6, 1)>>)

InitCohort ==
    /\ record = [crossing_times |-> << >>, periphery_times |-> << >>]
    /\ bin_size = DefaultBinSize
    /\ start_sec = DefaultStart
    /\ end_sec = DefaultEnd
    /\ \/ \E ids \in SUBSET SubjectIds : all_thigmotaxis_data \in [ids -> SeriesSet]
       \/ all_thigmotaxis_data = ExampleSeriesBySubject
    /\ ret = NotCalled
    /\ NoOrchestrator

CallMeanThigmotaxisBySex ==
    /\ ret' = calculate_mean_thigmotaxis_by_sex(all_thigmotaxis_data)
    /\ UNCHANGED Inputs

NextCohort == CallMeanThigmotaxisBySex

SpecCohort == InitCohort /\ [][NextCohort]_vars

(* ---- the loader and the orchestrators ---- *)

\* data_loader.UNITS
UNITS ==
    << <<"F", "B">>, <<"F", "G">>, <<"F", "R">>, <<"F", "W">>,
       <<"M", "B">>, <<"M", "G">>, <<"M", "R">>, <<"M", "W">> >>

Range(s) == {s[i] : i \in 1..Len(s)}

\* the value stored for a unit whose file is not found
None == [missing |-> TRUE]

IsNone(data) == "missing" \in DOMAIN data

\* data_dir holds, for each unit whose <unit>_OpenField_rawdata.mat exists,
\* the record scipy.io.loadmat parses from it
load_matlab_dataMutantSkipsMissing(units, dir) ==
    [unit \in Range(units) \cap DOMAIN dir |-> dir[unit]]

load_matlab_data(units, dir) ==
    [unit \in Range(units) |-> IF unit \in DOMAIN dir THEN dir[unit] ELSE None]

\* {unit: data for unit, data in raw_data.items() if data is not None}
NotNoneItems(raw) == [unit \in {u \in DOMAIN raw : ~IsNone(raw[u])} |-> raw[unit]]

\* d[k] = v
Put(d, k, v) == [x \in DOMAIN d \cup {k} |-> IF x = k THEN v ELSE d[x]]

\* a call into behavioral_plotting with its arguments
PlotCall(fn, args) == [fn |-> fn, args |-> args]

Orchestrators ==
    {"generate_thigmotaxis_dashboard", "generate_accumulated_crossings_plot",
     "generate_freezing_grooming_dashboard"}

\* the records found in the data files: one with a freezing interval, one
\* without interval arrays
DashboardRecords ==
    {[crossing_times |-> <<0, 1>>, periphery_times |-> <<1>>,
      Freezing_start_stop |-> << <<0>>, <<1>> >>],
     [crossing_times |-> <<0>>, periphery_times |-> <<0>>]}

\* (start_sec, end_sec, bin_size): two bins, one bin, an empty window, and a
\* window that ends a whole bin before it starts
DashboardWindows == {<<0, 2, 1>>, <<0, 2, 2>>, <<0, 0, 1>>, <<1, 0, 1>>}

InitDashboards ==
    /\ record = [crossing_times |-> << >>, periphery_times |-> << >>]
    /\ \E w \in DashboardWindows :
          /\ start_sec = w[1]
          /\ end_sec = w[2]
          /\ bin_size = w[3]
    /\ orchestrator \in Orchestrators
    /\ \E present \in SUBSET Range(UNITS) :
          /\ Cardinality(present) <= MaxLoaded
          /\ data_dir \in [present -> DashboardRecords]
    /\ raw_data = NoSubjects
    /\ loaded_data = NoSubjects
    /\ pc = "start"
    /\ analysed = << >>
    /\ bin_centers = << >>
    /\ all_thigmotaxis_data = NoSubjects
    /\ all_accumulated_crossings = NoSubjects
    /\ all_total_crossings = NoSubjects
    /\ all_freezing_data = NoSubjects
    /\ all_grooming_data = NoSubjects
    /\ plotted = << >>
    /\ ret = NotCalled

Arguments == <<record, bin_size, start_sec, end_sec, data_dir, orchestrator>>

\* the loaded units the loop has not taken yet; the loop takes them in dict
\* order, the model in any order, of which dict order is one
Pending == DOMAIN loaded_data \ Range(analysed)

\* load, filter, and return at once when nothing was loaded
LoadData ==
    /\ pc = "start"
    /\ raw_data' = load_matlab_data(UNITS, data_dir)
    /\ loaded_data' = NotNoneItems(raw_data')
    /\ pc' = IF DOMAIN loaded_data' = {} THEN "done" ELSE "analyse"
    /\ UNCHANGED <<Arguments, analysed, bin_centers, all_thigmotaxis_data,
                   all_accumulated_crossings, all_total_crossings,
                   all_freezing_data, all_grooming_data, plotted, ret>>

\* one turn of the loop of generate_thigmotaxis_dashboard
ThigmotaxisDashboardAnalyse ==
    /\ orchestrator = "generate_thigmotaxis_dashboard"
    /\ pc = "analyse"
    /\ \E unit \in Pending :
          LET r == calculate_thigmotaxis_in_window(
                       loaded_data[unit], bin_size, start_sec, end_sec)
          IN  /\ all_thigmotaxis_data' = Put(all_thigmotaxis_data, unit, r.values)
              /\ bin_centers' =
                    IF Len(bin_centers) = 0 /\ Len(r.bin_ends_minutes) > 0
                    THEN r.bin_ends_minutes
                    ELSE bin_centers
              /\ analysed' = Append(analysed, unit)
    /\ UNCHANGED <<Arguments, raw_data, loaded_data, pc,
                   all_accumulated_crossings, all_total_crossings,
                   all_freezing_data, all_grooming_data, plotted, ret>>

\* the plots and the mean taken while units are still to be analysed
ThigmotaxisDashboardPlotMutantBeforeAllCollected ==
    /\ orchestrator = "generate_thigmotaxis_dashboard"
    /\ pc = "analyse"
    /\ IF DOMAIN all_thigmotaxis_data /= {} /\ Len(bin_centers) > 0
       THEN LET means == calculate_mean_thigmotaxis_by_sex(all_thigmotaxis_data)
            IN  /\ ret' = means
                /\ plotted' =
                      <<PlotCall("plot_thigmotaxis_by_group",
                                 <<all_thigmotaxis_data, bin_centers>>),
                        PlotCall("plot_mean_thigmotaxis_by_sex",
                                 <<means.values.male_mean, means.values.female_mean,
                                   bin_centers>>)>>
       ELSE UNCHANGED <<ret, plotted>>
    /\ pc' = "done"
    /\ UNCHANGED <<Arguments, raw_data, loaded_data, analysed, bin_centers,
                   all_thigmotaxis_data, all_accumulated_crossings,
                   all_total_crossings, all_freezing_data, all_grooming_data>>

\* after the loop: the group plots, the mean by sex and its plot
ThigmotaxisDashboardPlot ==
    /\ orchestrator = "generate_thigmotaxis_dashboard"
    /\ pc = "analyse"
    /\ Pending = {}
    /\ IF DOMAIN all_thigmotaxis_data /= {} /\ Len(bin_centers) > 0
       THEN LET means == calculate_mean_thigmotaxis_by_sex(all_thigmotaxis_data)
            IN  /\ ret' = means
                /\ plotted' =
                      <<PlotCall("plot_thigmotaxis_by_group",
                                 <<all_thigmotaxis_data, bin_centers>>),
                        PlotCall("plot_mean_thigmotaxis_by_sex",
                                 <<means.values.male_mean, means.values.female_mean,
                                   bin_centers>>)>>
       ELSE UNCHANGED <<ret, plotted>>
    /\ pc' = "done"
    /\ UNCHANGED <<Arguments, raw_data, loaded_data, analysed, bin_centers,
                   all_thigmotaxis_data, all_accumulated_crossings,
                   all_total_crossings, all_freezing_data, all_grooming_data>>

\* one turn of the loop of generate_accumulated_crossings_plot
AccumulatedCrossingsAnalyse ==
    /\ orchestrator = "generate_accumulated_crossings_plot"
    /\ pc = "analyse"
    /\ \E unit \in Pending :
          LET accumulated == calculate_accumulated_crossings_in_window(
                                 loaded_data[unit], bin_size, start_sec, end_sec)
              total == calculate_total_crossings_in_window(
                           loaded_data[unit], bin_size, start_sec, end_sec)
          IN  /\ all_accumulated_crossings' =
                    Put(all_accumulated_crossings, unit, accumulated.values)
              /\ all_total_crossings' = Put(all_total_crossings, unit, total.values)
              /\ bin_centers' =
                    IF Len(bin_centers) = 0
                    THEN accumulated.bin_ends_minutes
                    ELSE bin_centers
              /\ analysed' = Append(analysed, unit)
    /\ UNCHANGED <<Arguments, raw_data, loaded_data, pc, all_thigmotaxis_data,
                   all_freezing_data, all_grooming_data, plotted, ret>>

\* after the loop: the accumulated plot, then the per-bin plot
AccumulatedCrossingsPlot ==
    /\ orchestrator = "generate_accumulated_crossings_plot"
    /\ pc = "analyse"
    /\ Pending = {}
    /\ plotted' =
          (IF DOMAIN all_accumulated_crossings /= {} /\ Len(bin_centers) > 0
           THEN <<PlotCall("plot_accumulated_crossings_all_animals",
                           <<all_accumulated_crossings, bin_centers>>)>>
           ELSE << >>)
          \o (IF DOMAIN all_total_crossings /= {} /\ Len(bin_centers) > 0
              THEN <<PlotCall("plot_total_crossings_all_animals",
                              <<all_total_crossings, bin_centers>>)>>
              ELSE << >>)
    /\ pc' = "done"
    /\ UNCHANGED <<Arguments, raw_data, loaded_data, analysed, bin_centers,
                   all_thigmotaxis_data, all_accumulated_crossings,
                   all_total_crossings, all_freezing_data, all_grooming_data, ret>>

\* one turn of the loop of generate_freezing_grooming_dashboard; an error
\* raised by the analysis ends the run
FreezingGroomingAnalyse ==
    /\ orchestrator = "generate_freezing_grooming_dashboard"
    /\ pc = "analyse"
    /\ \E unit \in Pending :
          LET freezing == calculate_behavior_duration_in_window(
                              loaded_data[unit], "Freezing_start_stop",
                              bin_size, start_sec, end_sec)
              grooming == calculate_behavior_duration_in_window(
                              loaded_data[unit], "grooming_start_stop",
                              bin_size, start_sec, end_sec)
          IN  IF freezing.raised /= "none"
              THEN /\ ret' = freezing
                   /\ pc' = "raised"
                   /\ UNCHANGED <<all_freezing_data, all_grooming_data,
                                  bin_centers, analysed>>
              ELSE /\ all_freezing_data' =
                         Put(all_freezing_data, unit, freezing.values)
                   /\ bin_centers' =
                         IF Len(bin_centers) = 0 /\ Len(freezing.bin_ends_minutes) > 0
                         THEN freezing.bin_ends_minutes
                         ELSE bin_centers
                   /\ IF grooming.raised /= "none"
                      THEN /\ ret' = grooming
                           /\ pc' = "raised"
                           /\ UNCHANGED <<all_grooming_data, analysed>>
                      ELSE /\ all_grooming_data' =
                                 Put(all_grooming_data, unit, grooming.values)
                           /\ analysed' = Append(analysed, unit)
                           /\ UNCHANGED <<ret, pc>>
    /\ UNCHANGED <<Arguments, raw_data, loaded_data, all_thigmotaxis_data,
                   all_accumulated_crossings, all_total_crossings, plotted>>

\* after the loop: the by-group plots and the all-animals plots
FreezingGroomingPlot ==
    /\ orchestrator = "generate_freezing_grooming_dashboard"
    /\ pc = "analyse"
    /\ Pending = {}
    /\ plotted' =
          IF /\ DOMAIN all_freezing_data /= {}
             /\ DOMAIN all_grooming_data /= {}
             /\ Len(bin_centers) > 0
          THEN <<PlotCall("plot_freezing_grooming_by_group",
                          <<all_freezing_data, all_grooming_data, bin_centers>>),
                 PlotCall("plot_freezing_grooming_all_animals",
                          <<all_freezing_data, all_grooming_data, bin_centers>>)>>
          ELSE << >>
    /\ pc' = "done"
    /\ UNCHANGED <<Arguments, raw_data, loaded_data, analysed, bin_centers,
                   all_thigmotaxis_data, all_accumulated_crossings,
                   all_total_crossings, all_freezing_data, all_grooming_data, ret>>

NextDashboards ==
    \/ LoadData
    \/ ThigmotaxisDashboardAnalyse
    \/ ThigmotaxisDashboardPlot
    \/ AccumulatedCrossingsAnalyse
    \/ AccumulatedCrossingsPlot
    \/ FreezingGroomingAnalyse
    \/ FreezingGroomingPlot

SpecDashboards == InitDashboards /\ [][NextDashboards]_vars

(* ---- vocabulary of the properties ---- *)

ValidWindow == start_sec < end_sec

InWindow(t) == start_sec <= t /\ t < end_sec

\* number of timestamps of a stream inside the window
InWindowCount(stream) == Cardinality({j \in 1..Len(stream) : InWindow(stream[j])})

\* number of in-window timestamps whose bin index floor((t - start) / bin_size) is i - 1
BinCount(stream, i) ==
    Cardinality({j \in 1..Len(stream) :
        InWindow(stream[j]) /\ (stream[j] - start_sec) \div bin_size = i - 1})

\* the stream a count function reads
StreamOf(fn) ==
    IF fn \in {"total_crossings", "accumulated_crossings"}
    THEN record.crossing_times
    ELSE record.periphery_times

\* the per-bin counts an accumulated series is built from
CountsOf(fn) ==
    IF fn = "accumulated_crossings"
    THEN calculate_total_crossings_in_window(record, bin_size, start_sec, end_sec).values
    ELSE calculate_periphery_crossings_in_window(record, bin_size, start_sec, end_sec).values

\* the record with every out-of-window timestamp removed
InWindowRecord ==
    [crossing_times |-> SelectSeq(record.crossing_times, InWindow),
     periphery_times |-> SelectSeq(record.periphery_times, InWindow)]

IsZero(x) == x.den > 0 /\ x.num = 0

\* the float x equals min(p / t, 1), for t > 0
IsClampedQuotient(x, p, t) ==
    /\ x.den > 0
    /\ IF p >= t THEN x.num = x.den ELSE x.num * t = p * x.den

RECURSIVE SumOver(_, _)
SumOver(f, n) == IF n = 0 THEN 0 ELSE f[n] + SumOver(f, n - 1)

PresentBranch ==
    /\ ret.fn = "behavior_duration"
    /\ ~KeyMissing(record, ret.behavior_key)

AbsentBranch ==
    /\ ret.fn = "behavior_duration"
    /\ KeyMissing(record, ret.behavior_key)

IntervalStarts == record[ret.behavior_key][1]

IntervalEnds == record[ret.behavior_key][2]

\* max(0, min(e, b1) - max(s, b0)) for interval j
Overlap(j, b0, b1) == Max2(0, Min2(IntervalEnds[j], b1) - Max2(IntervalStarts[j], b0))

(* ---- C1 ---- *)
\* C1: every element of the thigmotaxis series returned by
\* calculate_thigmotaxis_in_window is a number v with 0 <= v <= 1, for every
\* crossing stream, periphery stream (subset or not), window and bin size.
C1_ThigmotaxisInUnitInterval ==
    ret.fn = "thigmotaxis" =>
        \A i \in 1..Len(ret.values) :
            /\ ret.values[i].den > 0
            /\ 0 <= ret.values[i].num
            /\ ret.values[i].num <= ret.values[i].den

\* a call in which some bin holds more periphery events than crossings
C1_Witness ==
    /\ ret.fn = "thigmotaxis"
    /\ \E i \in 1..Len(ret.values) :
          /\ BinCount(record.crossing_times, i) > 0
          /\ BinCount(record.periphery_times, i) > BinCount(record.crossing_times, i)
          /\ ret.values[i] = Frac(1, 1)

(* ---- C2 ---- *)
\* C2: for every bin i the thigmotaxis value is 0 when the total count of
\* bin i is 0 (also when its periphery count is positive), and otherwise
\* min(periphery_count[i] / total_count[i], 1); never NaN, never an error.
C2_ThigmotaxisFormula ==
    ret.fn = "thigmotaxis" =>
        /\ ret.raised = "none"
        /\ ValidWindow => Len(ret.values) >= 1
        /\ \A i \in 1..Len(ret.values) :
              LET t == BinCount(record.crossing_times, i)
                  p == BinCount(record.periphery_times, i)
              IN  /\ ~IsNaN(ret.values[i])
                  /\ IF t = 0 THEN IsZero(ret.values[i])
                     ELSE IsClampedQuotient(ret.values[i], p, t)

\* a call with a bin that holds a periphery event and no crossing
C2_Witness ==
    /\ ret.fn = "thigmotaxis"
    /\ \E i \in 1..Len(ret.values) :
          /\ BinCount(record.crossing_times, i) = 0
          /\ BinCount(record.periphery_times, i) > 0
          /\ IsZero(ret.values[i])

(* ---- C3 ---- *)
\* C3: in the two count functions every timestamp t with start <= t < end is
\* counted in exactly one bin, the bin of index floor((t - start) / bin_size);
\* a timestamp on an interior edge start + k*bin_size is counted in bin k,
\* not in bin k-1.
C3_BinOfTimestamp ==
    ret.fn \in {"total_crossings", "periphery_crossings"} =>
        LET stream == StreamOf(ret.fn)
        IN  /\ \A j \in 1..Len(stream) :
                  InWindow(stream[j]) =>
                      (stream[j] - start_sec) \div bin_size + 1 \in 1..Len(ret.values)
            /\ \A i \in 1..Len(ret.values) : ret.values[i] = BinCount(stream, i)

\* a call whose only in-window timestamp lies on an interior bin edge
C3_Witness ==
    /\ ret.fn = "total_crossings"
    /\ \E k \in 1..MaxTime :
          /\ start_sec + k * bin_size < end_sec
          /\ \E j \in 1..Len(record.crossing_times) :
                record.crossing_times[j] = start_sec + k * bin_size
          /\ ret.values[k + 1] >= 1
          /\ ret.values[k] = 0

(* ---- C4 ---- *)
\* C4: the count functions keep exactly the timestamps with start <= t < end:
\* one equal to start is counted in the first bin, one equal to end in no bin,
\* and timestamps below start or at/above end change no bin count.
C4_WindowFilter ==
    /\ ret.fn \in {"total_crossings", "periphery_crossings"} =>
          /\ SumSeq(ret.values) = InWindowCount(StreamOf(ret.fn))
          /\ ValidWindow =>
                ret.values[1] >=
                    Cardinality({j \in 1..Len(StreamOf(ret.fn)) :
                                    StreamOf(ret.fn)[j] = start_sec})
    /\ ret.fn = "total_crossings" =>
          ret = calculate_total_crossings_in_window(
                    InWindowRecord, bin_size, start_sec, end_sec)
    /\ ret.fn = "periphery_crossings" =>
          ret = calculate_periphery_crossings_in_window(
                    InWindowRecord, bin_size, start_sec, end_sec)
    /\ ret.fn = "thigmotaxis" =>
          ret = calculate_thigmotaxis_in_window(
                    InWindowRecord, bin_size, start_sec, end_sec)

\* a call on a stream holding one timestamp at start and one at end
C4_Witness ==
    /\ ret.fn = "total_crossings"
    /\ ValidWindow
    /\ \E j, k \in 1..Len(record.crossing_times) :
          /\ record.crossing_times[j] = start_sec
          /\ record.crossing_times[k] = end_sec
    /\ ret.values[1] >= 1
    /\ SumSeq(ret.values) < Len(record.crossing_times)

(* ---- C5 ---- *)
\* C5: for every record, window (start < end) and bin size, the last element
\* of the accumulated series (total or periphery) is the number of timestamps
\* of that stream with start <= t < end, which is the sum of the per-bin counts.
C5_AccumulatedLast ==
    (ret.fn \in {"accumulated_crossings", "accumulated_periphery_crossings"}
        /\ ValidWindow) =>
        /\ Len(ret.values) >= 1
        /\ ret.values[Len(ret.values)] = InWindowCount(StreamOf(ret.fn))
        /\ ret.values[Len(ret.values)] = SumSeq(CountsOf(ret.fn))

\* an accumulated series over at least two bins, one event in the first bin
\* and a second one in a later bin
C5_Witness ==
    /\ ret.fn = "accumulated_crossings"
    /\ ValidWindow
    /\ Len(ret.values) >= 2
    /\ ret.values[1] = 1
    /\ ret.values[Len(ret.values)] = 2

(* ---- C6 ---- *)
\* C6: the accumulated series is as long as the per-bin count series, element
\* i is the sum of the counts 0..i, and the series never decreases; the same
\* for the total and the periphery stream.
C6_RunningSum ==
    ret.fn \in {"accumulated_crossings", "accumulated_periphery_crossings"} =>
        LET counts == CountsOf(ret.fn)
        IN  /\ Len(ret.values) = Len(counts)
            /\ \A i \in 1..Len(ret.values) :
                  /\ ret.values[i] = SumOver(counts, i)
                  /\ i > 1 => ret.values[i - 1] <= ret.values[i]

\* an accumulated periphery series that grows from one bin to the next
C6_Witness ==
    /\ ret.fn = "accumulated_periphery_crossings"
    /\ Len(ret.values) >= 2
    /\ ret.values[1] >= 1
    /\ ret.values[2] > ret.values[1]

(* ---- C7 ---- *)
\* C7: with the key present and its array non-empty, bin i of
\* calculate_behavior_duration_in_window spans start + i*bin_size to
\* start + (i+1)*bin_size and its duration is the sum over all intervals (s, e)
\* of max(0, min(e, b1) - max(s, b0)).
C7_BinDurationIsSummedOverlap ==
    (PresentBranch /\ ret.raised = "none") =>
        /\ ValidWindow => Len(ret.values) >= 1
        /\ \A i \in 1..Len(ret.values) :
              LET b0 == start_sec + (i - 1) * bin_size
                  b1 == start_sec + i * bin_size
              IN  ret.values[i] =
                      SumOver([j \in 1..Len(IntervalStarts) |-> Overlap(j, b0, b1)],
                              Len(IntervalStarts))

\* a call with two intervals that both overlap the same bin
C7_Witness ==
    /\ PresentBranch
    /\ ValidWindow
    /\ Len(IntervalStarts) = 2
    /\ \E i \in 1..Len(ret.values) :
          /\ Overlap(1, start_sec + (i - 1) * bin_size, start_sec + i * bin_size) > 0
          /\ Overlap(2, start_sec + (i - 1) * bin_size, start_sec + i * bin_size) > 0
          /\ ret.values[i] >= 2

(* ---- C8 ---- *)
\* C8: for every interval, window and bin size (dividing the duration or
\* not), the durations attributed to the interval, summed over all bins,
\* equal the length of its overlap with the window [start, end]; what lies
\* before start or after end contributes zero to every bin.
C8_DurationsClippedToWindow ==
    (PresentBranch /\ ret.raised = "none" /\ ValidWindow) =>
        LET behavior_times == record[ret.behavior_key]
            bins == BehaviorBins(bin_size, start_sec, end_sec)
            attributed(j) ==
                SumOver([i \in 1..(Len(bins) - 1) |->
                            OverlapDuration(behavior_times, bins[i], bins[i + 1])[j]],
                        Len(bins) - 1)
        IN  /\ \A j \in 1..Len(IntervalStarts) :
                  attributed(j) = Overlap(j, start_sec, end_sec)
            /\ SumSeq(ret.values) =
                  SumOver([j \in 1..Len(IntervalStarts) |->
                              Overlap(j, start_sec, end_sec)], Len(IntervalStarts))

(* ---- C9 ---- *)
\* C9: when behavior_key is absent or its array is empty,
\* calculate_behavior_duration_in_window raises nothing and returns an
\* all-zero series as long as the series it returns, for the same window and
\* bin size, when the key is present (the number of bins).
RecordWithOneInterval ==
    [crossing_times |-> record.crossing_times,
     periphery_times |-> record.periphery_times,
     Freezing_start_stop |-> << <<start_sec>>, <<end_sec>> >>]

C9_AbsentKeyZeroSeriesOfBinCount ==
    (AbsentBranch /\ ValidWindow) =>
        /\ ret.raised = "none"
        /\ \A i \in 1..Len(ret.values) : ret.values[i] = 0
        /\ Len(ret.values) =
              Len(calculate_behavior_duration_in_window(
                      RecordWithOneInterval, "Freezing_start_stop",
                      bin_size, start_sec, end_sec).values)

(* ---- C10 ---- *)
\* C10: every analysis function that returns (values, bin_ends_minutes),
\* behavior duration in both its branches included, returns two sequences of
\* equal length, for every window and bin size.
C10_ValuesAndLabelsSameLength ==
    (ret.fn /= "none" /\ ret.raised = "none" /\ ValidWindow) =>
        Len(ret.values) = Len(ret.bin_ends_minutes)

(* ---- vocabulary of the bin properties ---- *)

Duration == end_sec - start_sec

DividesEvenly == ValidWindow /\ Duration % bin_size = 0

\* a call that returned a series with bin labels
ReturnedSeries ==
    /\ ret.fn \in {"thigmotaxis", "total_crossings", "accumulated_crossings",
                   "periphery_crossings", "accumulated_periphery_crossings",
                   "behavior_duration"}
    /\ ret.raised = "none"

\* equality and order of two floats with positive denominators
FracEq(a, b) == a.den > 0 /\ b.den > 0 /\ a.num * b.den = b.num * a.den

FracLeq(a, b) == a.den > 0 /\ b.den > 0 /\ a.num * b.den <= b.num * a.den

\* the edges the count functions build, and those of the duration function
CountBins == Arange(0, Duration + bin_size, bin_size)

DurationBins == BehaviorBins(bin_size, start_sec, end_sec)

(* ---- C11 ---- *)
\* C11: when bin_size divides duration = end - start evenly, the count
\* functions and calculate_behavior_duration_in_window produce exactly
\* duration / bin_size bins, and the bins tile the window: bin i ends at
\* i * bin_size and the last one at the window end.
C11_DividingBinsTileWindow ==
    (ReturnedSeries /\ DividesEvenly) =>
        /\ Len(ret.values) = Duration \div bin_size
        /\ Len(ret.bin_ends_minutes) = Duration \div bin_size
        /\ \A i \in 1..Len(ret.bin_ends_minutes) :
              FracEq(ret.bin_ends_minutes[i], Frac(i * bin_size, 60))
        /\ Len(CountBins) - 1 = Duration \div bin_size
        /\ CountBins[Len(CountBins)] = Duration
        /\ Len(DurationBins) - 1 = Duration \div bin_size
        /\ DurationBins[Len(DurationBins)] = end_sec

\* a count call and a window made of at least two whole bins of two seconds or more
C11_Witness ==
    /\ ret.fn = "total_crossings"
    /\ DividesEvenly
    /\ bin_size >= 2
    /\ Len(ret.values) >= 2
    /\ FracEq(ret.bin_ends_minutes[Len(ret.bin_ends_minutes)], Frac(Duration, 60))

(* ---- C12 ---- *)
\* C12: when bin_size does not divide the duration, the edges are
\* ceil(duration / bin_size) + 1 values none of which exceeds the duration,
\* so the final bin is shorter than bin_size and ends at the window end, and
\* the last bin label is at most duration / 60.
C12_LastBinEndsAtWindowEnd ==
    (ReturnedSeries /\ ValidWindow /\ ~DividesEvenly) =>
        /\ Len(CountBins) = (Duration + bin_size - 1) \div bin_size + 1
        /\ \A i \in 1..Len(CountBins) : CountBins[i] <= Duration
        /\ \A i \in 1..Len(DurationBins) : DurationBins[i] <= end_sec
        /\ \A i \in 1..Len(ret.bin_ends_minutes) :
              FracLeq(ret.bin_ends_minutes[i], Frac(Duration, 60))

(* ---- C13 ---- *)
\* C13: for every window and bin size, the default (3, 603, 150) included,
\* the edges of calculate_behavior_duration_in_window (built from
\* start_time_seconds), rebased to the window start, are the edges of the
\* count and thigmotaxis functions (built from 0), and all of them return
\* the same bin labels.
LabelsOfCounts ==
    calculate_total_crossings_in_window(record, bin_size, start_sec, end_sec).bin_ends_minutes

DurationOfPresentKey ==
    calculate_behavior_duration_in_window(
        RecordWithOneInterval, "Freezing_start_stop", bin_size, start_sec, end_sec)

C13_SameBinsFromZeroAndFromStart ==
    ReturnedSeries =>
        /\ Shift(DurationBins, start_sec) = CountBins
        /\ ret.bin_ends_minutes = LabelsOfCounts
        /\ DurationOfPresentKey.raised = "none" =>
              ret.bin_ends_minutes = DurationOfPresentKey.bin_ends_minutes

\* the duration function called with the key present and the default arguments
C13_Witness ==
    /\ PresentBranch
    /\ ret.raised = "none"
    /\ bin_size = DefaultBinSize
    /\ start_sec = DefaultStart
    /\ end_sec = DefaultEnd
    /\ Len(ret.bin_ends_minutes) = 4

(* ---- C14 ---- *)
\* C14: calculate_periphery_center_ratio returns
\* periphery_count / max(total_count - periphery_count, 1) over the
\* timestamps with start <= t < end; when total_count = periphery_count or
\* periphery_count > total_count the result is periphery_count.
C14_RatioFormula ==
    ret.fn = "periphery_center_ratio" =>
        LET t == InWindowCount(record.crossing_times)
            q == InWindowCount(record.periphery_times)
        IN  /\ ret.raised = "none"
            /\ FracEq(ret.values, Frac(q, Max2(t - q, 1)))
            /\ q >= t => FracEq(ret.values, Frac(q, 1))

\* a ratio over a window with more periphery events than crossings
C14_Witness ==
    /\ ret.fn = "periphery_center_ratio"
    /\ InWindowCount(record.crossing_times) >= 1
    /\ InWindowCount(record.periphery_times) > InWindowCount(record.crossing_times)
    /\ FracEq(ret.values, Frac(InWindowCount(record.periphery_times), 1))

(* ---- C15 ---- *)
\* C15: for every record and window, also with no event in the window or
\* with more periphery events than crossings, the ratio is a finite,
\* non-negative number and no division by zero is raised.
C15_RatioFiniteNonNegative ==
    ret.fn = "periphery_center_ratio" =>
        /\ ret.raised = "none"
        /\ ret.values.den > 0
        /\ ret.values.num >= 0

\* a ratio over a window whose events are all peripheral
C15_Witness ==
    /\ ret.fn = "periphery_center_ratio"
    /\ ret.raised = "none"
    /\ InWindowCount(record.crossing_times) >= 1
    /\ InWindowCount(record.periphery_times) = InWindowCount(record.crossing_times)

(* ---- C16 ---- *)
\* C16: every analysis entry point called with end_time_seconds <=
\* start_time_seconds rejects the call with an InvalidWindow error instead
\* of returning a result.
C16_InvalidWindowRejected ==
    (ret.fn /= "none" /\ ~ValidWindow) => ret.raised = "InvalidWindow"

(* ---- C17 ---- *)
\* C17: calculate_mean_thigmotaxis_by_sex on a mapping with no id starting
\* with 'M', or none starting with 'F', fails with an EmptyGroup error and
\* returns no defaulted mean.
HasGroup(c) == \E id \in DOMAIN all_thigmotaxis_data : StartsWith(id, c)

C17_EmptyGroupRejected ==
    (ret.fn = "mean_thigmotaxis_by_sex" /\ ~(HasGroup("M") /\ HasGroup("F"))) =>
        ret.raised = "EmptyGroup"

(* ---- C18 ---- *)
\* C18: with at least one 'M' and one 'F' subject and equal-length series,
\* the male mean is the elementwise arithmetic mean of exactly the series
\* whose id starts with 'M', the female mean that of exactly those starting
\* with 'F'; other ids contribute to neither; {MB:[1,2], MR:[3,4], FB:[5,6]}
\* gives [2,3] and [5,6].
GroupIds(c) == {id \in DOMAIN all_thigmotaxis_data : StartsWith(id, c)}

RECURSIVE GroupSum(_, _)
GroupSum(ids, i) ==
    IF ids = {} THEN Frac(0, 1)
    ELSE LET id == CHOOSE x \in ids : TRUE
         IN  AddFrac(all_thigmotaxis_data[id][i], GroupSum(ids \ {id}, i))

SeriesLength == Len(all_thigmotaxis_data[CHOOSE id \in DOMAIN all_thigmotaxis_data : TRUE])

\* mean is the elementwise mean of the group: count * mean[i] = sum[i]
IsGroupMean(mean, c) ==
    /\ Len(mean) = SeriesLength
    /\ \A i \in 1..Len(mean) :
          FracEq(Frac(mean[i].num * Cardinality(GroupIds(c)), mean[i].den),
                 GroupSum(GroupIds(c), i))

C18_MeanOfEachSex ==
    (ret.fn = "mean_thigmotaxis_by_sex" /\ HasGroup("M") /\ HasGroup("F")) =>
        /\ ret.raised = "none"
        /\ IsGroupMean(ret.values.male_mean, "M")
        /\ IsGroupMean(ret.values.female_mean, "F")
        /\ all_thigmotaxis_data = ExampleSeriesBySubject =>
              /\ Len(ret.values.male_mean) = 2
              /\ FracEq(ret.values.male_mean[1], Frac(2, 1))
              /\ FracEq(ret.values.male_mean[2], Frac(3, 1))
              /\ Len(ret.values.female_mean) = 2
              /\ FracEq(ret.values.female_mean[1], Frac(5, 1))
              /\ FracEq(ret.values.female_mean[2], Frac(6, 1))

\* the mean taken over the documented example
C18_Witness ==
    /\ ret.fn = "mean_thigmotaxis_by_sex"
    /\ all_thigmotaxis_data = ExampleSeriesBySubject
    /\ FracEq(ret.values.male_mean[1], Frac(2, 1))

(* ---- C19 ---- *)
\* C19: window (0, 600), bin_size 150, crossing times [10, 160, 170, 400, 590],
\* periphery times [10, 170]: 4 bins with end labels [2.5, 5.0, 7.5, 10.0]
\* minutes, total counts [1, 2, 1, 1], accumulated [1, 3, 4, 5], periphery
\* counts [1, 1, 0, 0], thigmotaxis [1, 1/2, 0, 0], periphery/center ratio 2/3.
InScenario ==
    /\ record = ScenarioRecord
    /\ bin_size = 150
    /\ start_sec = 0
    /\ end_sec = 600

C19_DocumentedScenario ==
    InScenario =>
        /\ ret.fn \in {"thigmotaxis", "total_crossings", "accumulated_crossings",
                       "periphery_crossings"} =>
              /\ Len(ret.bin_ends_minutes) = 4
              /\ FracEq(ret.bin_ends_minutes[1], Frac(5, 2))
              /\ FracEq(ret.bin_ends_minutes[2], Frac(5, 1))
              /\ FracEq(ret.bin_ends_minutes[3], Frac(15, 2))
              /\ FracEq(ret.bin_ends_minutes[4], Frac(10, 1))
        /\ ret.fn = "total_crossings" => ret.values = <<1, 2, 1, 1>>
        /\ ret.fn = "accumulated_crossings" => ret.values = <<1, 3, 4, 5>>
        /\ ret.fn = "periphery_crossings" => ret.values = <<1, 1, 0, 0>>
        /\ ret.fn = "thigmotaxis" =>
              /\ Len(ret.values) = 4
              /\ FracEq(ret.values[1], Frac(1, 1))
              /\ FracEq(ret.values[2], Frac(1, 2))
              /\ FracEq(ret.values[3], Frac(0, 1))
              /\ FracEq(ret.values[4], Frac(0, 1))
        /\ ret.fn = "periphery_center_ratio" =>
              /\ ret.raised = "none"
              /\ FracEq(ret.values, Frac(2, 3))

\* the accumulated counts taken on the scenario
C19_Witness ==
    /\ InScenario
    /\ ret.fn = "accumulated_crossings"
    /\ Len(ret.values) = 4

(* ---- C20 ---- *)
\* C20: an interval with start <= end lying inside one bin contributes its
\* length to that bin and zero to every other bin; an interval crossing
\* exactly one bin edge contributes to the two adjacent bins amounts that sum
\* to its length, and zero to all other bins.
Attributed(j, i) ==
    OverlapDuration(record[ret.behavior_key], DurationBins[i], DurationBins[i + 1])[j]

InsideBin(j, i) ==
    /\ IntervalStarts[j] <= IntervalEnds[j]
    /\ DurationBins[i] <= IntervalStarts[j]
    /\ IntervalEnds[j] <= DurationBins[i + 1]

CrossesOneEdge(j, i) ==
    /\ DurationBins[i] <= IntervalStarts[j]
    /\ IntervalStarts[j] < DurationBins[i + 1]
    /\ DurationBins[i + 1] < IntervalEnds[j]
    /\ IntervalEnds[j] <= DurationBins[i + 2]

C20_IntervalInOneOrTwoBins ==
    (PresentBranch /\ ret.raised = "none") =>
        LET nbins == Len(ret.values)
            length(j) == IntervalEnds[j] - IntervalStarts[j]
        IN  /\ nbins = Len(DurationBins) - 1
            /\ Len(IntervalStarts) = 1 =>
                  \A i \in 1..nbins : ret.values[i] = Attributed(1, i)
            /\ \A j \in 1..Len(IntervalStarts) :
                  /\ \A i \in 1..nbins :
                        InsideBin(j, i) =>
                            /\ Attributed(j, i) = length(j)
                            /\ \A k \in 1..nbins : k /= i => Attributed(j, k) = 0
                  /\ \A i \in 1..(nbins - 1) :
                        CrossesOneEdge(j, i) =>
                            /\ Attributed(j, i) + Attributed(j, i + 1) = length(j)
                            /\ \A k \in 1..nbins :
                                  k \notin {i, i + 1} => Attributed(j, k) = 0

\* a single interval that crosses one bin edge and gives time to both bins
C20_Witness ==
    /\ PresentBranch
    /\ ret.raised = "none"
    /\ Len(IntervalStarts) = 1
    /\ \E i \in 1..(Len(ret.values) - 1) :
          /\ CrossesOneEdge(1, i)
          /\ ret.values[i] > 0
          /\ ret.values[i + 1] > 0
          /\ ret.values[i] + ret.values[i + 1] = IntervalEnds[1] - IntervalStarts[1]

(* ---- C21 ---- *)
\* C21: window (0, 600), bin_size 150, a single behaviour interval (100, 250):
\* calculate_behavior_duration_in_window returns the per-bin durations
\* [50, 100, 0, 0].
C21_DocumentedIntervalScenario ==
    (InScenario /\ PresentBranch) =>
        /\ ret.raised = "none"
        /\ ret.values = <<50, 100, 0, 0>>

\* the freezing durations taken on the scenario's single interval (100, 250)
C21_Witness ==
    /\ InScenario
    /\ PresentBranch
    /\ ret.behavior_key = "Freezing_start_stop"
    /\ record.Freezing_start_stop = << <<100>>, <<250>> >>
    /\ Len(ret.values) = 4

(* ---- vocabulary of the orchestrator properties ---- *)

GenerateThigmotaxisDashboard == orchestrator = "generate_thigmotaxis_dashboard"

\* the units whose file was found
LoadedUnits == {unit \in DOMAIN raw_data : ~IsNone(raw_data[unit])}

LoadedOfSex(c) == {unit \in DOMAIN loaded_data : StartsWith(unit, c)}

\* every element of a series is a finite float
SeriesFinite(series) == \A i \in 1..Len(series) : series[i].den > 0

\* the mean of group c is a series of finite floats; the mean of an empty
\* group is the scalar nan, not a series
MeanFinite(mean, c) == GroupIds(c) /= {} /\ SeriesFinite(mean)

(* ---- C22 ---- *)
\* C22: for every set of loaded subjects, sets of only males or only females
\* included, and every subject record, no value that
\* generate_thigmotaxis_dashboard hands to the plotting layer (the per-subject
\* thigmotaxis series, the male mean series, the female mean series) is NaN or
\* infinite.
C22_PlottedValuesFinite ==
    GenerateThigmotaxisDashboard =>
        \A k \in 1..Len(plotted) :
            /\ plotted[k].fn = "plot_thigmotaxis_by_group" =>
                  \A unit \in DOMAIN plotted[k].args[1] :
                      SeriesFinite(plotted[k].args[1][unit])
            /\ plotted[k].fn = "plot_mean_thigmotaxis_by_sex" =>
                  /\ MeanFinite(plotted[k].args[1], "M")
                  /\ MeanFinite(plotted[k].args[2], "F")

(* ---- C23 ---- *)
\* C23: load_matlab_data returns a mapping with exactly one entry per requested
\* unit, whose value is None exactly when that unit's file is missing; every
\* orchestrator analyses only the units whose value is not None, and performs
\* no analysis and no plotting when no unit was loaded.
ResultMappings ==
    {all_thigmotaxis_data, all_accumulated_crossings, all_total_crossings,
     all_freezing_data, all_grooming_data}

C23_MissingUnitsMarkedAndSkipped ==
    pc \in {"analyse", "done", "raised"} =>
        /\ DOMAIN raw_data = Range(UNITS)
        /\ \A unit \in Range(UNITS) :
              /\ IsNone(raw_data[unit]) <=> unit \notin DOMAIN data_dir
              /\ unit \in DOMAIN data_dir => raw_data[unit] = data_dir[unit]
        /\ Range(analysed) \subseteq LoadedUnits
        /\ \A results \in ResultMappings : DOMAIN results \subseteq LoadedUnits
        /\ LoadedUnits = {} =>
              /\ pc = "done"
              /\ analysed = << >>
              /\ \A results \in ResultMappings : DOMAIN results = {}
              /\ ret.fn = "none"
              /\ plotted = << >>

\* a run that found some files and missed others, analysed exactly the units
\* found, and plotted
C23_Witness ==
    /\ pc = "done"
    /\ \E unit \in DOMAIN raw_data : IsNone(raw_data[unit])
    /\ LoadedUnits /= {}
    /\ Range(analysed) = LoadedUnits
    /\ Len(plotted) > 0

(* ---- C24 ---- *)
\* C24: no analysis function modifies the subject record it is given: over any
\* sequence of calls to the thigmotaxis, count, accumulated-count,
\* behaviour-duration and ratio functions on one record, its crossing_times,
\* periphery_times and interval arrays stay as they were, and a call repeated
\* with the same arguments returns the same result.
SameCall ==
    /\ ret'.fn = ret.fn
    /\ ret'.behavior_key = ret.behavior_key

C24_RecordNeverModified ==
    [][/\ record' = record
       /\ <<bin_size, start_sec, end_sec>>' = <<bin_size, start_sec, end_sec>>
       /\ SameCall => ret' = ret]_vars

\* a call made on the record that holds crossings, periphery crossings and a
\* freezing interval, after which the record is the one the loader built
C24_Witness ==
    /\ record = ScenarioRecord
    /\ ret.fn = "behavior_duration"
    /\ ret.behavior_key = "Freezing_start_stop"
    /\ ret.raised = "none"

(* ---- C25 ---- *)
\* C25: the subject-keyed result mapping, the bin labels an orchestrator
\* selects (taken from the first subject processed) and the male and female
\* means are the same for every order in which the loaded subjects are
\* analysed, provided the cross-subject reduction runs only after every
\* subject's result has been collected: each is the value fixed by the loaded
\* data and the window alone.
ResultsOf(f(_)) == [unit \in DOMAIN loaded_data |-> f(loaded_data[unit]).values]

ThigmotaxisOf(data) == calculate_thigmotaxis_in_window(data, bin_size, start_sec, end_sec)

AccumulatedOf(data) ==
    calculate_accumulated_crossings_in_window(data, bin_size, start_sec, end_sec)

TotalOf(data) == calculate_total_crossings_in_window(data, bin_size, start_sec, end_sec)

FreezingOf(data) ==
    calculate_behavior_duration_in_window(
        data, "Freezing_start_stop", bin_size, start_sec, end_sec)

GroomingOf(data) ==
    calculate_behavior_duration_in_window(
        data, "grooming_start_stop", bin_size, start_sec, end_sec)

\* the labels of the window, whoever is analysed first
WindowLabels == BinEndsMinutes(CountBins)

C26_MeanOnlyWithBothSexes ==
    (GenerateThigmotaxisDashboard /\ ret.fn = "mean_thigmotaxis_by_sex") =>
        /\ LoadedOfSex("M") /= {}
        /\ LoadedOfSex("F") /= {}

(* ---- C27 ---- *)
\* C27: if periphery_times is a sub-multiset of crossing_times then, for every
\* window and bin size, the periphery count is <= the total count in every
\* bin, the accumulated periphery count is <= the accumulated total count at
\* every bin, and the clamp to 1.0 of calculate_thigmotaxis_in_window changes
\* no value: the index is exactly periphery / total wherever total > 0.
Occurrences(stream, t) == Cardinality({j \in 1..Len(stream) : stream[j] = t})

PeripheryWithinCrossings ==
    \A j \in 1..Len(record.periphery_times) :
        Occurrences(record.periphery_times, record.periphery_times[j])
            <= Occurrences(record.crossing_times, record.periphery_times[j])

\* events of a stream in bins 1..i
AccumulatedBinCount(stream, i) == SumOver([k \in 1..i |-> BinCount(stream, k)], i)

C27_PeripheryNeverExceedsTotal ==
    PeripheryWithinCrossings =>
        /\ ret.fn = "periphery_crossings" =>
              \A i \in 1..Len(ret.values) :
                  ret.values[i] <= BinCount(record.crossing_times, i)
        /\ ret.fn = "accumulated_periphery_crossings" =>
              \A i \in 1..Len(ret.values) :
                  ret.values[i] <= AccumulatedBinCount(record.crossing_times, i)
        /\ ret.fn = "thigmotaxis" =>
              \A i \in 1..Len(ret.values) :
                  LET total == BinCount(record.crossing_times, i)
                      periphery == BinCount(record.periphery_times, i)
                  IN  total > 0 =>
                          /\ ret.values[i].den > 0
                          /\ ret.values[i].num * total = periphery * ret.values[i].den
                          /\ periphery <= total

\* one of two crossings of a bin is a periphery crossing: the index is 1/2
C27_Witness ==
    /\ PeripheryWithinCrossings
    /\ ret.fn = "thigmotaxis"
    /\ \E i \in 1..Len(ret.values) :
          /\ BinCount(record.crossing_times, i) = 2
          /\ BinCount(record.periphery_times, i) = 1
          /\ FracEq(ret.values[i], Frac(1, 2))

(* ---- C28 ---- *)
\* C28: for every subject record, window and bin size, the total and periphery
\* counts that calculate_periphery_center_ratio divides are the last elements
\* of calculate_accumulated_crossings_in_window and
\* calculate_accumulated_periphery_crossings_in_window for the same window:
\* the scalar ratio and the binned series count the same events, whatever the
\* bin size.
Last(s) == s[Len(s)]

AccumulatedTotal(b) ==
    calculate_accumulated_crossings_in_window(record, b, start_sec, end_sec).values

AccumulatedPeriphery(b) ==
    calculate_accumulated_periphery_crossings_in_window(record, b, start_sec, end_sec).values

C28_RatioCountsAreLastAccumulated ==
    ValidWindow =>
        /\ ret.fn = "accumulated_crossings" =>
              /\ Len(ret.values) > 0
              /\ Last(ret.values) = InWindowCount(record.crossing_times)
        /\ ret.fn = "accumulated_periphery_crossings" =>
              /\ Len(ret.values) > 0
              /\ Last(ret.values) = InWindowCount(record.periphery_times)
        /\ ret.fn = "periphery_center_ratio" =>
              \A b \in BinSizes :
                  /\ Len(AccumulatedTotal(b)) > 0
                  /\ Len(AccumulatedPeriphery(b)) > 0
                  /\ ret.raised = "none"
                  /\ ret.values =
                        Frac(Last(AccumulatedPeriphery(b)),
                             Max2(Last(AccumulatedTotal(b))
                                      - Last(AccumulatedPeriphery(b)), 1))

\* two bins, one crossing inside the window and one outside it
C28_Witness ==
    /\ ValidWindow
    /\ ret.fn = "accumulated_crossings"
    /\ Len(ret.values) >= 2
    /\ Last(ret.values) = 1
    /\ Len(record.crossing_times) = 2

(* ---- C29 ---- *)
\* C29: for pairwise non-overlapping intervals with start <= end, every value
\* returned by calculate_behavior_duration_in_window is >= 0 and <= bin_size;
\* an interval with start > end contributes zero to every bin, never a
\* negative duration.
ProperIntervals ==
    \A j \in 1..Len(IntervalStarts) : IntervalStarts[j] <= IntervalEnds[j]

NonOverlappingIntervals ==
    \A j, k \in 1..Len(IntervalStarts) :
        j /= k => \/ IntervalEnds[j] <= IntervalStarts[k]
                  \/ IntervalEnds[k] <= IntervalStarts[j]

\* what interval j adds to bin i when a reversed interval adds nothing
ProperShare(j, i) ==
    IF IntervalStarts[j] > IntervalEnds[j]
    THEN 0
    ELSE Overlap(j, DurationBins[i], DurationBins[i + 1])

C29_DurationsWithinBin ==
    (PresentBranch /\ ret.raised = "none") =>
        /\ (ProperIntervals /\ NonOverlappingIntervals) =>
              \A i \in 1..Len(ret.values) :
                  ret.values[i] >= 0 /\ ret.values[i] <= bin_size
        /\ \A i \in 1..Len(ret.values) :
              /\ \A j \in 1..Len(IntervalStarts) :
                    IntervalStarts[j] > IntervalEnds[j] => Attributed(j, i) = 0
              /\ ret.values[i] =
                    SumSeq([j \in 1..Len(IntervalStarts) |-> ProperShare(j, i)])

\* two intervals that touch without overlapping fill a whole bin
C29_Witness ==
    /\ PresentBranch
    /\ ret.raised = "none"
    /\ Len(IntervalStarts) = 2
    /\ ProperIntervals
    /\ NonOverlappingIntervals
    /\ \A j \in 1..2 : IntervalStarts[j] < IntervalEnds[j]
    /\ \E i \in 1..Len(ret.values) : ret.values[i] = bin_size

====
